---- MODULE Spec2Model ----
(***************************************************************************)
(* Model of src/facebook.py: FacebookLoginTester.test_credentials (the     *)
(* sweep over the candidate list) and FacebookLoginTester.attempt_login    *)
(* (one delayed POST and its classification), the session they share       *)
(* (setup_session) and the caller, main, with the handler of               *)
(* KeyboardInterrupt.                                                      *)
(*                                                                         *)
(* Strings are sequences of tokens: a line of the password file is a       *)
(* sequence of characters, a URL a sequence of path pieces, a body a       *)
(* sequence of words.  Python's `needle in haystack` is Contains.          *)
(***************************************************************************)
EXTENDS Integers, Sequences, FiniteSets, TLC

VARIABLES
    file,          \* the password file: [status, lines]
    max_attempts,  \* test_credentials parameter
    delay,         \* test_credentials parameter
    pc,            \* position of the caller inside test_credentials
    passwords,     \* local list built from the file
    idx,           \* number of elements the for loop has taken from passwords
    password,      \* loop variable
    attempts,      \* local counter
    ret,           \* value attempt_login returned to the if of line 165
    result,        \* value test_credentials returned: [found, value]
    out,           \* what logger and stdout have emitted during this call
    calls,         \* attempt_login calls of this call: [password, start]
    sleeps,        \* time.sleep calls of this call: [from, until]
    posts,         \* session.post calls of this call: the request, how
                   \* often it was sent, what session.post gave resp, its
                   \* classification class, the bool returned ret
    now,           \* wall clock
    script,        \* the answers the server has given, by request number
    rerun,         \* TRUE once test_credentials has been called a second time
    prev,          \* what the first call returned and where it stopped
    universe,      \* the answers the server may give to a POST
    email,         \* test_credentials parameter
    cookies,       \* self.session.cookies
    argv,          \* what main is given: [email, wordlist, confirm, final]
    mainpc,        \* position inside main; "none" when main is not the caller
    exitcode,      \* exit status of the process, "none" while it runs
    interrupt      \* the KeyboardInterrupt raised, if any: [raised, where, elapsed]

\* the state of the session and of main
sessionVars == <<universe, email, cookies>>
mainVars == <<argv, mainpc, exitcode, interrupt>>

vars == <<file, max_attempts, delay, pc, passwords, idx, password, attempts,
          ret, result, out, calls, sleeps, posts, now, script, rerun, prev,
          sessionVars, mainVars>>

-----------------------------------------------------------------------------
(* Bounds of the model *)

MaxLen == 4        \* lines in the password file
MaxBudget == 3     \* largest max_attempts tried
WideLen == 1       \* lines in the password file when the server may answer anything
MainLen == 2       \* lines in the password file when main is the caller

-----------------------------------------------------------------------------
(* Strings *)

RECURSIVE Contains(_, _)
\* Python `needle in hay` on token sequences
Contains(hay, needle) ==
    IF Len(needle) > Len(hay) THEN FALSE
    ELSE IF SubSeq(hay, 1, Len(needle)) = needle THEN TRUE
    ELSE Contains(Tail(hay), needle)

IsSpace(c) == c \in {" ", "\t", "\n"}

RECURSIVE LStrip(_)
LStrip(s) == IF s # <<>> /\ IsSpace(Head(s)) THEN LStrip(Tail(s)) ELSE s

RECURSIVE RStrip(_)
RStrip(s) == IF s # <<>> /\ IsSpace(s[Len(s)]) THEN RStrip(SubSeq(s, 1, Len(s) - 1)) ELSE s

\* str.strip()
Strip(s) == RStrip(LStrip(s))

LowerWord(w) ==
    CASE w = "Welcome" -> "welcome"
      [] w = "Facebook" -> "facebook"
      [] w = "News" -> "news"
      [] w = "Feed" -> "feed"
      [] w = "NEWS" -> "news"
      [] w = "FEED" -> "feed"
      [] w = "Log" -> "log"
      [] w = "In" -> "in"
      [] OTHER -> w

\* str.lower()
Lower(s) == [i \in 1..Len(s) |-> LowerWord(s[i])]

-----------------------------------------------------------------------------
(* The password file and the list built from it (lines 142-150) *)

Lines == { <<"\n">>, <<"a", "\n">>, <<" ", "b", "\n">> }

Files == UNION { [1..n -> Lines] : n \in 0..MaxLen }

\* the variant that keeps blank lines as empty candidates
RECURSIVE LoadPasswordsKeepBlank(_)
LoadPasswordsKeepBlank(lines) ==
    IF lines = <<>> THEN <<>>
    ELSE <<Strip(Head(lines))>> \o LoadPasswordsKeepBlank(Tail(lines))

RECURSIVE LoadPasswords(_)
\* [line.strip() for line in f if line.strip()]
LoadPasswords(lines) ==
    IF lines = <<>> THEN <<>>
    ELSE IF Strip(Head(lines)) # <<>>
         THEN <<Strip(Head(lines))>> \o LoadPasswords(Tail(lines))
         ELSE LoadPasswords(Tail(lines))

-----------------------------------------------------------------------------
(* Responses of session.post and their classification (lines 112-137) *)

\* The server's answer to a POST: either the transport fails (exc, with its
\* cause), or a page comes back with a status, after hops redirects, at a
\* final URL, with a body and the cookies it sets; elapsed is the time the
\* call took.
Raised(cause, elapsed) ==
    [exc |-> TRUE, cause |-> cause, status |-> 0, hops |-> 0, url |-> <<>>,
     text |-> <<>>, set_cookie |-> {}, elapsed |-> elapsed]
Page(status, hops, url, text, set_cookie, elapsed) ==
    [exc |-> FALSE, cause |-> "", status |-> status, hops |-> hops, url |-> url,
     text |-> text, set_cookie |-> set_cookie, elapsed |-> elapsed]

ConnectionFailed == Raised("ConnectionError", 2)
CheckpointPage ==
    Page(200, 1, <<"https://www.", "facebook.com/", "checkpoint">>,
         <<"Welcome", "to", "Facebook">>, {"checkpoint"}, 1)
HomePage ==
    Page(200, 1, <<"https://www.", "facebook.com/", "home">>,
         <<"News", "Feed">>, {"c_user"}, 1)
LoginPage ==
    Page(200, 0, <<"https://www.", "facebook.com/", "login.php">>,
         <<"Log", "In">>, {"datr"}, 0)

MockResponses == {ConnectionFailed, CheckpointPage, HomePage, LoginPage}

-----------------------------------------------------------------------------
(* The session (lines 28-56) and what session.post makes of an answer *)

RetryTotal == 3
StatusForcelist == {429, 500, 502, 503, 504}
MaxRedirects == 1

\* Retry(...) of lines 35-39 names no allowed_methods: urllib3's default
\* set of methods retried on a status stands, and POST is not in it
AllowedMethods == {"HEAD", "GET", "PUT", "DELETE", "OPTIONS", "TRACE"}

\* Retry.is_retry: a response is retried when its status is in the
\* forcelist and the method is one that may be retried
IsRetry(method, status) == method \in AllowedMethods /\ status \in StatusForcelist

\* the variant without the cap on redirects
TooManyRedirectsNever(hops) == FALSE

\* session.max_redirects = 1 (line 56): a chain of more hops raises
\* requests.TooManyRedirects
TooManyRedirects(hops) == hops > MaxRedirects

\* how many times the request goes out for one session.post, the server
\* giving the same answer each time
Sends(method, raw) ==
    IF ~raw.exc /\ IsRetry(method, raw.status) THEN RetryTotal + 1 ELSE 1

\* what session.request gives attempt_login: the page, or the exception
Deliver(method, raw) ==
    IF raw.exc THEN raw
    ELSE IF IsRetry(method, raw.status) THEN Raised("RetryError", raw.elapsed)
    ELSE IF TooManyRedirects(raw.hops) THEN Raised("TooManyRedirects", raw.elapsed)
    ELSE raw

\* session.post (line 112)
SessionPost(raw) == Deliver("POST", raw)

\* the variant with a fresh cookie jar for every attempt
CookiesAfterFresh(jar, resp) == {}

\* the session keeps the cookies a response sets
CookiesAfter(jar, resp) == jar \cup resp.set_cookie

\* lines 99-118: the form and the cookies that go out with the POST
Request(e, p, jar, t) == [email |-> e, pass |-> p, lgnjs |-> t, cookies |-> jar]

\* the variant that looks for the landing page before the error markers
ClassifyLandingFirst(url, text) ==
    IF Contains(url, <<"facebook.com/", "home">>)
       \/ Contains(url, <<"facebook.com/", "?sk=welcome">>)
    THEN "Success"
    ELSE IF Contains(url, <<"login_error">>) \/ Contains(url, <<"checkpoint">>)
    THEN "Blocked"
    ELSE IF Contains(text, <<"Welcome", "to", "Facebook">>)
            \/ Contains(Lower(text), <<"news", "feed">>)
    THEN "Success"
    ELSE "Failure"

\* lines 122-133: the three ifs on a completed response
Classify(url, text) ==
    IF Contains(url, <<"login_error">>) \/ Contains(url, <<"checkpoint">>)
    THEN "Blocked"
    ELSE IF Contains(url, <<"facebook.com/", "home">>)
            \/ Contains(url, <<"facebook.com/", "?sk=welcome">>)
    THEN "Success"
    ELSE IF Contains(text, <<"Welcome", "to", "Facebook">>)
            \/ Contains(Lower(text), <<"news", "feed">>)
    THEN "Success"
    ELSE "Failure"

\* what the attempt amounts to, in the terms of AttemptResult
AttemptResult(resp) ==
    IF resp.exc THEN "TransportError" ELSE Classify(resp.url, resp.text)

\* the variant whose except clause returns True
AttemptLoginTrueOnError(resp) ==
    IF resp.exc THEN TRUE ELSE Classify(resp.url, resp.text) = "Success"

\* the variant that takes a checkpoint page for a login
AttemptLoginBlockedTrue(resp) ==
    IF resp.exc THEN FALSE ELSE Classify(resp.url, resp.text) \in {"Success", "Blocked"}

\* the bool attempt_login returns (lines 120-137)
AttemptLogin(resp) ==
    IF resp.exc THEN FALSE ELSE Classify(resp.url, resp.text) = "Success"

\* the variant that does not wait
SleepUntilNoWait(t, d) == t

\* time.sleep(delay), line 96
SleepUntil(t, d) == t + d

-----------------------------------------------------------------------------
(* test_credentials (lines 139-177) *)

None == [found |-> FALSE, value |-> <<>>]
Found(p) == [found |-> TRUE, value |-> p]

Ev(e, n, total) == [ev |-> e, n |-> n, total |-> total]

\* variants of the budget test: one attempt too late, one too early,
\* without the truth test of max_attempts, with a sign test instead of it
BudgetExceededLate(a, m) == m # 0 /\ a > m + 1
BudgetExceededEarly(a, m) == m # 0 /\ a >= m
BudgetExceededNoZero(a, m) == a > m
BudgetExceededSign(a, m) == m >= 0 /\ a > m

\* variant of the budget test that takes only a positive max_attempts
BudgetExceededPositive(a, m) == m > 0 /\ a > m

\* line 159: if max_attempts and attempts > max_attempts
BudgetExceeded(a, m) == m # 0 /\ a > m

\* the for statement of line 157 has another element to take
HasNext(i, pw) == i < Len(pw)

\* the variant that walks the list from its end
NextPasswordReversed(pw, i) == pw[Len(pw) - i]

\* the element the for statement of line 157 takes after i elements
NextPassword(pw, i) == pw[i + 1]

\* the variant that prints the count of the attempts before this one
ProgressOffByOne(a, total) == Ev("progress", a - 1, total)

\* lines 172-173: the progress line
Progress(a, total) == Ev("progress", a, total)

\* the variant that logs the success and goes on with the loop
AfterLoginNoReturn(r) == "for"

\* lines 165-173: where the if leaves the caller: return, or the next turn
AfterLogin(r) == IF r = TRUE THEN "done" ELSE "for"

NoInterrupt == [raised |-> FALSE, where |-> "", elapsed |-> 0]
NoArgs == [email |-> "", wordlist |-> "", confirm |-> FALSE, final |-> FALSE]

\* the object as __init__ leaves it and the locals before any call
InitLocals ==
    /\ pc = "idle"
    /\ passwords = <<>>
    /\ idx = 0
    /\ password = <<>>
    /\ attempts = 0
    /\ ret = FALSE
    /\ result = None
    /\ out = <<>>
    /\ calls = <<>>
    /\ sleeps = <<>>
    /\ posts = <<>>
    /\ now = 0
    /\ script = <<>>
    /\ rerun = FALSE
    /\ prev = [result |-> None, attempts |-> 0, posts |-> 0]
    /\ cookies = {}
    /\ exitcode = "none"
    /\ interrupt = NoInterrupt

\* test_credentials called directly on a new FacebookLoginTester
Init ==
    /\ file \in [status : {"ok"}, lines : Files]
                \cup [status : {"missing", "unreadable"}, lines : {<<>>}]
    /\ max_attempts \in -1..MaxBudget
    /\ delay \in {0, 2}
    /\ universe = MockResponses
    /\ email = "user"
    /\ argv = NoArgs
    /\ mainpc = "none"
    /\ InitLocals

\* lines 139-156: the call, the file being read, the locals being set.
\* A second call replays the same file, parameters and transport script.
TestCredentials ==
    /\ \/ pc = "idle" /\ mainpc \in {"none", "call"}
       \/ pc = "done" /\ ~rerun /\ mainpc = "none"
    /\ rerun' = (pc = "done")
    /\ prev' = IF pc = "done"
               THEN [result |-> result, attempts |-> attempts, posts |-> Len(posts)]
               ELSE prev
    /\ calls' = <<>>
    /\ sleeps' = <<>>
    /\ posts' = <<>>
    /\ idx' = 0
    /\ password' = <<>>
    /\ ret' = FALSE
    /\ attempts' = 0
    /\ result' = None
    /\ IF file.status = "missing"
       THEN /\ out' = <<Ev("file_not_found", 0, 0)>>
            /\ passwords' = <<>>
            /\ pc' = "done"
       ELSE IF file.status = "unreadable"
       THEN /\ out' = <<Ev("read_error", 0, 0)>>
            /\ passwords' = <<>>
            /\ pc' = "done"
       ELSE /\ passwords' = LoadPasswords(file.lines)
            /\ out' = <<Ev("loaded", 0, Len(passwords'))>>
            /\ pc' = "for"
    /\ UNCHANGED <<file, max_attempts, delay, now, script, sessionVars, mainVars>>

\* lines 157-165: take the next password, count it, check the budget,
\* and either break or call attempt_login
ForNext ==
    /\ pc = "for"
    /\ HasNext(idx, passwords)
    /\ idx' = idx + 1
    /\ password' = NextPassword(passwords, idx)
    /\ attempts' = attempts + 1
    /\ IF BudgetExceeded(attempts', max_attempts)
       THEN /\ out' = Append(out, Ev("max_reached", max_attempts, 0))
            /\ pc' = "end"
            /\ UNCHANGED calls
       ELSE /\ out' = Append(out, Ev("attempt", attempts', Len(passwords)))
            /\ calls' = Append(calls, [password |-> password', start |-> now])
            /\ pc' = "sleep"
    /\ UNCHANGED <<file, max_attempts, delay, passwords, ret, result, sleeps,
                   posts, now, script, rerun, prev,
                   sessionVars, mainVars>>

\* line 157: the list is used up, the loop ends
ForExhausted ==
    /\ pc = "for"
    /\ ~HasNext(idx, passwords)
    /\ pc' = "end"
    /\ UNCHANGED <<file, max_attempts, delay, passwords, idx, password, attempts,
                   ret, result, out, calls, sleeps, posts, now, script, rerun, prev,
                   sessionVars, mainVars>>

\* line 96: time.sleep(delay)
Sleep ==
    /\ pc = "sleep"
    /\ now' = SleepUntil(now, delay)
    /\ sleeps' = Append(sleeps, [from |-> now, until |-> now'])
    /\ pc' = "post"
    /\ UNCHANGED <<file, max_attempts, delay, passwords, idx, password, attempts,
                   ret, result, out, calls, posts, script, rerun, prev,
                   sessionVars, mainVars>>

\* lines 98-137: the POST, its classification, the except clause
Post ==
    /\ pc = "post"
    /\ LET n == Len(posts) + 1 IN
       \E raw \in (IF n <= Len(script) THEN {script[n]} ELSE universe) :
          LET resp == SessionPost(raw) IN
          /\ script' = IF n <= Len(script) THEN script ELSE Append(script, raw)
          /\ ret' = AttemptLogin(resp)
          /\ posts' = Append(posts, [password |-> password, at |-> now,
                                     request |-> Request(email, password, cookies, now),
                                     sends |-> Sends("POST", raw),
                                     resp |-> resp,
                                     class |-> AttemptResult(resp), ret |-> ret'])
          /\ cookies' = CookiesAfter(cookies, resp)
          /\ now' = now + resp.elapsed
          /\ out' = IF resp.exc THEN Append(out, Ev("login_failed", 0, 0)) ELSE out
    /\ pc' = "if"
    /\ UNCHANGED <<file, max_attempts, delay, passwords, idx, password, attempts,
                   result, calls, sleeps, rerun, prev, universe, email, mainVars>>

\* lines 165-173: return the password on success, else print the progress
IfLogin ==
    /\ pc = "if"
    /\ IF ret = TRUE
       THEN /\ out' = Append(out, Ev("success", 0, 0))
            /\ result' = Found(password)
       ELSE /\ out' = Append(out, Progress(attempts, Len(passwords)))
            /\ result' = result
    /\ pc' = AfterLogin(ret)
    /\ UNCHANGED <<file, max_attempts, delay, passwords, idx, password, attempts,
                   ret, calls, sleeps, posts, now, script, rerun, prev,
                   sessionVars, mainVars>>

\* lines 175-177: after the loop
NotFound ==
    /\ pc = "end"
    /\ out' = Append(out, Ev("not_found", 0, 0))
    /\ result' = None
    /\ pc' = "done"
    /\ UNCHANGED <<file, max_attempts, delay, passwords, idx, password, attempts,
                   ret, calls, sleeps, posts, now, script, rerun, prev,
                   sessionVars, mainVars>>

Next ==
    \/ TestCredentials
    \/ ForNext
    \/ ForExhausted
    \/ Sleep
    \/ Post
    \/ IfLogin
    \/ NotFound

Spec == Init /\ [][Next]_vars

-----------------------------------------------------------------------------
(* main (lines 213-274) and the handler of KeyboardInterrupt (lines 276-281) *)

\* the process started from the command line
MainInit ==
    /\ argv \in [email : {"", "user"}, wordlist : {"", "list.txt"},
                 confirm : BOOLEAN, final : BOOLEAN]
    /\ email = argv.email
    /\ file \in [status : {"ok"}, lines : {f \in Files : Len(f) <= MainLen}]
                \cup [status : {"missing", "unreadable"}, lines : {<<>>}]
    /\ max_attempts \in -1..MaxBudget
    /\ delay \in {0, 2}
    /\ universe = MockResponses
    /\ mainpc = "start"
    /\ InitLocals

\* lines 213-256: the acknowledgment, the arguments, the final confirmation;
\* main either exits or goes on to call test_credentials
Main ==
    /\ mainpc = "start"
    /\ IF ~argv.confirm
       THEN /\ out' = Append(out, Ev("exiting", 0, 0))
            /\ exitcode' = "0"
            /\ mainpc' = "exited"
       ELSE IF argv.email = "" \/ argv.wordlist = ""
       THEN /\ out' = Append(out, Ev("required", 0, 0))
            /\ exitcode' = "1"
            /\ mainpc' = "exited"
       ELSE IF ~argv.final
       THEN /\ out' = Append(out, Ev("cancelled", 0, 0))
            /\ exitcode' = "0"
            /\ mainpc' = "exited"
       ELSE /\ out' = out
            /\ exitcode' = exitcode
            /\ mainpc' = "call"
    /\ UNCHANGED <<file, max_attempts, delay, pc, passwords, idx, password,
                   attempts, ret, result, calls, sleeps, posts, now, script,
                   rerun, prev, sessionVars, argv, interrupt>>

\* lines 265-274: test_credentials has returned; the summary; main returns
MainReport ==
    /\ mainpc = "call"
    /\ pc = "done"
    /\ out' = Append(out, IF result.found THEN Ev("complete_found", 0, 0)
                                          ELSE Ev("complete_not_found", 0, 0))
    /\ exitcode' = "0"
    /\ mainpc' = "exited"
    /\ UNCHANGED <<file, max_attempts, delay, pc, passwords, idx, password,
                   attempts, ret, result, calls, sleeps, posts, now, script,
                   rerun, prev, sessionVars, argv, interrupt>>

\* lines 276-281: KeyboardInterrupt is raised wherever the thread is inside
\* test_credentials: between two statements of the loop, elapsed seconds
\* into time.sleep, or inside session.post with the request out. Nothing in
\* test_credentials or attempt_login catches it; the handler prints and
\* exits with status 0.
Interrupt ==
    /\ mainpc = "call"
    /\ pc \in {"for", "sleep", "post", "if", "end"}
    /\ \E t \in (IF pc = "sleep" THEN {0} \cup 0..(delay - 1) ELSE {0}) :
          /\ interrupt' = [raised |-> TRUE, where |-> pc, elapsed |-> t]
          /\ now' = now + t
          /\ sleeps' = IF t > 0 THEN Append(sleeps, [from |-> now, until |-> now + t])
                        ELSE sleeps
    /\ out' = Append(out, Ev("interrupted", 0, 0))
    /\ exitcode' = "0"
    /\ mainpc' = "exited"
    /\ pc' = "interrupted"
    /\ UNCHANGED <<file, max_attempts, delay, passwords, idx, password, attempts,
                   ret, result, calls, posts, script, rerun, prev, sessionVars,
                   argv>>

NextMain ==
    \/ Main
    \/ TestCredentials
    \/ ForNext
    \/ ForExhausted
    \/ Sleep
    \/ Post
    \/ IfLogin
    \/ NotFound
    \/ MainReport
    \/ Interrupt

SpecMain == MainInit /\ [][NextMain]_vars

-----------------------------------------------------------------------------
(* The outcome of a call, read off what it logged and returned *)

\* the warning of line 160 was logged: the break of line 161 was taken
BudgetStopTaken == \E i \in DOMAIN out : out[i].ev = "max_reached"

\* the terminal state of the sweep in the terms of SweepOutcome
Outcome ==
    IF pc # "done" THEN "Running"
    ELSE IF file.status # "ok" THEN "ConfigurationError"
    ELSE IF result.found THEN "Succeeded"
    ELSE IF BudgetStopTaken THEN "BudgetReached"
    ELSE "Exhausted"

\* the attempts of this call that were classified Success
Successes == {i \in DOMAIN posts : posts[i].class = "Success"}

-----------------------------------------------------------------------------
(* Attempt budget *)

\* C1: with max_attempts = k > 0 a call never makes more than k login
\* attempts (attempt_login calls, sleeps, POSTs), and the candidate the loop
\* holds when the budget stop is taken is not attempted.
C1_AttemptsWithinBudget ==
    max_attempts > 0 =>
        /\ Len(calls) <= max_attempts
        /\ Len(sleeps) <= max_attempts
        /\ Len(posts) <= max_attempts
        /\ BudgetStopTaken =>
              /\ idx = max_attempts + 1
              /\ Len(calls) = idx - 1
              /\ pc \in {"end", "done"}

C1_Witness ==
    /\ pc = "done"
    /\ max_attempts > 0
    /\ BudgetStopTaken
    /\ Len(posts) = max_attempts
    /\ Len(passwords) > max_attempts

\* C2 as stated: with max_attempts = k > 0 and no Success among the
\* candidates tried, the call ends with the budget stop, whatever the length
\* of the list (taken here on the lists that have a candidate to try).
C2_BudgetReachedAnyLength ==
    (pc = "done" /\ file.status = "ok" /\ max_attempts > 0 /\ ~result.found
        /\ passwords # <<>>)
        => Outcome = "BudgetReached"

\* C2 amended: with max_attempts = k > 0 and no Success among the first k
\* candidates, the call ends with the budget stop exactly when the list is
\* longer than k; a list of at most k candidates ends Exhausted.
C2_BudgetReachedIffLonger ==
    (pc = "done" /\ file.status = "ok" /\ max_attempts > 0 /\ ~result.found)
        => /\ Successes = {}
           /\ Len(passwords) > max_attempts => Outcome = "BudgetReached"
           /\ Len(passwords) <= max_attempts => Outcome = "Exhausted"

C2_Witness ==
    /\ pc = "done"
    /\ max_attempts > 0
    /\ Len(passwords) > max_attempts
    /\ Outcome = "BudgetReached"
    /\ Len(posts) = max_attempts
    /\ \E i \in DOMAIN posts : posts[i].resp.exc

-----------------------------------------------------------------------------
(* Success, order *)

\* C3: an attempt classified Success is the last one of the call: the caller
\* is at the if or has returned, nothing was called, slept or posted after
\* it, and the value returned is that attempt's candidate.
C3_SuccessStopsAtOnce ==
    \A i \in Successes :
        /\ i = Len(posts)
        /\ Len(calls) = i
        /\ Len(sleeps) = i
        /\ idx = i
        /\ pc \in {"if", "done"}
        /\ pc = "done" => result = Found(posts[i].password)

C3_Witness ==
    /\ pc = "done"
    /\ result.found
    /\ Successes # {}
    /\ idx < Len(passwords)
    /\ max_attempts > idx

\* C4: the i-th attempt uses the i-th candidate of the list, and the value
\* returned as found is the candidate of the earliest attempt classified
\* Success; a call that returns None had no attempt classified Success.
C4_ListOrder ==
    /\ \A i \in DOMAIN calls : calls[i].password = passwords[i]
    /\ \A i \in DOMAIN posts : posts[i].password = passwords[i]
    /\ result.found =>
          \E j \in Successes :
              /\ result.value = passwords[j]
              /\ \A m \in 1..(j - 1) : m \notin Successes
    /\ (pc = "done" /\ ~result.found) => Successes = {}

C4_Witness ==
    /\ pc = "done"
    /\ Len(posts) = 3
    /\ Successes = {3}
    /\ passwords[1] # passwords[2]
    /\ passwords[2] # passwords[3]
    /\ result = Found(passwords[3])

-----------------------------------------------------------------------------
(* max_attempts = 0 *)

\* the first request number the transport answered with a Success, 0 if none
FirstSuccess(n) ==
    LET S == {i \in 1..n : i <= Len(script)
                              /\ AttemptResult(SessionPost(script[i])) = "Success"}
    IN IF S = {} THEN 0 ELSE CHOOSE i \in S : \A j \in S : i <= j

\* C5: with max_attempts = 0 and n > 0 candidates, a finished call has made
\* n attempts when none was classified Success and otherwise as many as the
\* index of the first Success, whose candidate it returns; a second call
\* against the same responses returns the same value at the same index.
C5_UnlimitedStopIndex ==
    (pc = "done" /\ file.status = "ok" /\ max_attempts = 0 /\ passwords # <<>>)
        => LET f == FirstSuccess(Len(passwords)) IN
           /\ attempts = Len(posts)
           /\ f = 0 => (attempts = Len(passwords) /\ result = None)
           /\ f > 0 => (attempts = f /\ result = Found(passwords[f]))
           /\ rerun => /\ result = prev.result
                       /\ attempts = prev.attempts
                       /\ Len(posts) = prev.posts

C5_Witness ==
    /\ pc = "done"
    /\ rerun
    /\ max_attempts = 0
    /\ Len(passwords) >= 3
    /\ result.found
    /\ attempts = 2

\* C6: with max_attempts = 0 the warning of the budget stop is never
\* logged; a call on a readable file ends by a Success or with every
\* candidate attempted.
C6_ZeroNeverStops ==
    max_attempts = 0 =>
        /\ ~BudgetStopTaken
        /\ Outcome # "BudgetReached"
        /\ (pc \in {"end", "done"} /\ file.status = "ok")
              => (result.found \/ Len(posts) = Len(passwords))

C6_Witness ==
    /\ pc = "done"
    /\ max_attempts = 0
    /\ Len(passwords) > MaxBudget
    /\ Len(posts) = Len(passwords)
    /\ Outcome = "Exhausted"

-----------------------------------------------------------------------------
(* Transport errors *)

\* C7: a POST that raises is a non-match for its candidate and is logged;
\* it counts as an attempt; and it never ends the call: a call that returns
\* None has attempted every candidate or has taken the budget stop after
\* max_attempts attempts.
C7_TransportErrorGoesOn ==
    /\ \A i \in DOMAIN posts :
          posts[i].resp.exc =>
              /\ posts[i].ret = FALSE
              /\ \E j \in DOMAIN out : out[j].ev = "login_failed"
              /\ attempts >= i
              /\ (i = Len(posts) /\ pc = "if") => ret = FALSE
    /\ (pc = "done" /\ file.status = "ok" /\ ~result.found) =>
          \/ Len(posts) = Len(passwords)
          \/ BudgetStopTaken /\ Len(posts) = max_attempts /\ max_attempts > 0
          \/ BudgetStopTaken /\ Len(posts) = 0 /\ max_attempts < 0

C7_Witness ==
    /\ pc = "done"
    /\ Len(posts) = 4
    /\ posts[1].class = "TransportError"
    /\ posts[2].class = "TransportError"
    /\ posts[3].class = "Failure"
    /\ posts[4].class = "Success"
    /\ result = Found(passwords[4])
    /\ attempts = 4

\* C8: the value attempt_login returns for a POST that raised differs from
\* the value it returns for a response classified Failure.
C8_TransportErrorDistinct ==
    \A i, j \in DOMAIN posts :
        (posts[i].resp.exc /\ posts[j].class = "Failure")
            => posts[i].ret # posts[j].ret

-----------------------------------------------------------------------------
(* Delay *)

\* C9: every POST, the first included, comes after a sleep of its own of
\* delay seconds inside the same attempt, and attempt i+1 starts at least
\* delay seconds after attempt i started.
C9_DelayBeforeEveryPost ==
    /\ Len(sleeps) \in {Len(posts), Len(posts) + 1}
    /\ Len(calls) \in {Len(sleeps), Len(sleeps) + 1}
    /\ \A i \in DOMAIN sleeps :
          /\ sleeps[i].from >= calls[i].start
          /\ sleeps[i].until >= sleeps[i].from + delay
          /\ i > 1 => sleeps[i].from >= posts[i - 1].at
    /\ \A i \in DOMAIN posts :
          /\ posts[i].at >= sleeps[i].until
          /\ posts[i].at >= calls[i].start + delay
    /\ \A i \in DOMAIN calls :
          i > 1 => /\ calls[i].start >= calls[i - 1].start + delay
                   /\ i \in DOMAIN posts => posts[i].at >= posts[i - 1].at + delay

C9_Witness ==
    /\ delay > 0
    /\ Len(posts) >= 2
    /\ posts[1].at = delay
    /\ calls[2].start >= delay

-----------------------------------------------------------------------------
(* Empty list *)

\* the file is readable and none of its lines holds a candidate
NoCandidates ==
    /\ file.status = "ok"
    /\ \A i \in DOMAIN file.lines : Strip(file.lines[i]) = <<>>

\* C10: a call on a file without candidates makes no attempt: nothing is
\* called, slept or posted, the clock does not move, and the call returns
\* None as Exhausted.
C10_EmptyListExhausted ==
    (pc # "idle" /\ NoCandidates) =>
        /\ passwords = <<>>
        /\ calls = <<>>
        /\ sleeps = <<>>
        /\ posts = <<>>
        /\ script = <<>>
        /\ now = 0
        /\ attempts = 0
        /\ pc = "done" => (result = None /\ Outcome = "Exhausted")

C10_Witness ==
    /\ pc = "done"
    /\ NoCandidates
    /\ Len(file.lines) > 0
    /\ passwords = <<>>
    /\ Outcome = "Exhausted"

-----------------------------------------------------------------------------
(* Termination *)

\* files whose lines all hold a candidate
FullFiles == {f \in Files : \A i \in DOMAIN f : Strip(f[i]) # <<>>}

\* test_credentials called directly, on a readable file without blank lines
LiveInit ==
    /\ file \in [status : {"ok"}, lines : FullFiles]
    /\ max_attempts \in -1..MaxBudget
    /\ delay = 2
    /\ universe = MockResponses
    /\ email = "user"
    /\ argv = NoArgs
    /\ mainpc = "none"
    /\ InitLocals

\* the interpreter keeps running the one thread, and every HTTP call returns
\* or times out (timeout=15, line 116)
FairSpec == LiveInit /\ [][Next]_vars /\ WF_vars(Next)

\* the terminal states a finished call shows, by what it logged
TerminalsSeen ==
    {t \in {"Succeeded", "BudgetReached", "Exhausted"} :
        \/ t = "Succeeded" /\ \E i \in DOMAIN out : out[i].ev = "success"
        \/ t = "BudgetReached" /\ BudgetStopTaken
        \/ t = "Exhausted" /\ ~BudgetStopTaken
              /\ \E i \in DOMAIN out : out[i].ev = "not_found"}

\* C11: every call on a readable list comes to return; when it has, it shows
\* exactly one of Succeeded, Exhausted, BudgetReached; and nothing is called,
\* slept or posted after that by this call (the only step left is a new call,
\* which starts from empty logs).
C11_ReachesOneTerminal ==
    /\ (pc # "done") ~> (pc = "done")
    /\ [](pc = "done" => /\ TerminalsSeen = {Outcome}
                         /\ Outcome \in {"Succeeded", "BudgetReached", "Exhausted"})
    /\ [][pc = "done" => (pc' = "for" /\ calls' = <<>> /\ sleeps' = <<>>
                            /\ posts' = <<>>)]_vars

C11_Witness ==
    /\ pc = "done"
    /\ rerun
    /\ Outcome = "Exhausted"
    /\ Len(posts) >= 2

-----------------------------------------------------------------------------
(* A server that may answer anything *)

WideUrls ==
    { <<"https://www.", "facebook.com/", "login.php">>,
      <<"https://www.", "facebook.com/", "home">>,
      <<"https://www.", "facebook.com/", "?sk=welcome">>,
      <<"https://www.", "facebook.com/", "checkpoint">>,
      <<"https://www.", "facebook.com/", "login.php", "login_error">>,
      <<"https://www.", "facebook.com/", "home", "checkpoint">>,
      <<"https://www.", "example.com/", "home">> }

WideTexts ==
    { <<"Log", "In">>,
      <<"Welcome", "to", "Facebook">>,
      <<"welcome", "to", "facebook">>,
      <<"News", "Feed">>,
      <<"NEWS", "FEED">>,
      <<"Your", "news", "feed">> }

\* pages of every URL and body; pages with a transient status; pages at the
\* end of a chain of two or three redirects; a failed connection
WideResponses ==
    {Page(200, 0, u, t, {}, 0) : u \in WideUrls, t \in WideTexts}
    \cup {Page(st, 0, <<"https://www.", "facebook.com/", "login.php">>, t, {}, 1) :
            st \in {429, 503}, t \in {<<"Log", "In">>, <<"News", "Feed">>}}
    \cup {Page(200, h, u, <<"Log", "In">>, {}, 1) :
            h \in {2, 3}, u \in { <<"https://www.", "facebook.com/", "home">>,
                                  <<"https://www.", "facebook.com/", "login.php">> }}
    \cup {ConnectionFailed}

\* test_credentials called directly, on a short file, without budget or delay
WideInit ==
    /\ file \in [status : {"ok"}, lines : {f \in Files : Len(f) <= WideLen}]
    /\ max_attempts = 0
    /\ delay = 0
    /\ universe = WideResponses
    /\ email = "user"
    /\ argv = NoArgs
    /\ mainpc = "none"
    /\ InitLocals

SpecWide == WideInit /\ [][Next]_vars

-----------------------------------------------------------------------------
(* Classification *)

\* the markers, read off the tokens one by one
UrlHasErrorMarker(url) ==
    \E k \in DOMAIN url : url[k] \in {"login_error", "checkpoint"}
UrlIsLanding(url) ==
    \E k \in DOMAIN url :
        /\ k + 1 \in DOMAIN url
        /\ url[k] = "facebook.com/"
        /\ url[k + 1] \in {"home", "?sk=welcome"}
BodyHasBanner(text) ==
    \E k \in DOMAIN text :
        /\ k + 2 \in DOMAIN text
        /\ text[k] = "Welcome" /\ text[k + 1] = "to" /\ text[k + 2] = "Facebook"
BodyHasFeed(text) ==
    \E k \in DOMAIN text :
        /\ k + 1 \in DOMAIN text
        /\ text[k] \in {"news", "News", "NEWS"}
        /\ text[k + 1] \in {"feed", "Feed", "FEED"}

\* the four-step decision, first match wins
Decision(url, text) ==
    IF UrlHasErrorMarker(url) THEN "Blocked"
    ELSE IF UrlIsLanding(url) THEN "Success"
    ELSE IF BodyHasBanner(text) \/ BodyHasFeed(text) THEN "Success"
    ELSE "Failure"

\* C12: for every completed response the attempt's classification is the
\* four-step decision on its final URL and body, and attempt_login returns
\* True exactly when that decision is Success.
C12_FourStepDecision ==
    \A i \in DOMAIN posts :
        ~posts[i].resp.exc =>
            /\ AttemptResult(posts[i].resp)
                  = Decision(posts[i].resp.url, posts[i].resp.text)
            /\ posts[i].ret
                  = (Decision(posts[i].resp.url, posts[i].resp.text) = "Success")

C12_Witness ==
    \E i \in DOMAIN posts :
        /\ ~posts[i].resp.exc
        /\ UrlHasErrorMarker(posts[i].resp.url)
        /\ UrlIsLanding(posts[i].resp.url)
        /\ BodyHasFeed(posts[i].resp.text)
        /\ posts[i].ret = FALSE
        /\ pc = "for"

-----------------------------------------------------------------------------
(* Checkpoint pages, progress *)

\* the if of line 165 has dealt with attempt i
Handled(i) == i \in DOMAIN posts /\ (i < Len(posts) \/ pc # "if")

\* C13: an attempt classified Blocked returns False, gets its progress line
\* like any failure, and the loop is left after it only when no candidate is
\* left or the budget stop is taken.
C13_BlockedGoesOn ==
    \A i \in DOMAIN posts :
        posts[i].class = "Blocked" =>
            /\ posts[i].ret = FALSE
            /\ Handled(i) => \E j \in DOMAIN out :
                                out[j] = Ev("progress", i, Len(passwords))
            /\ (i = Len(posts) /\ pc \in {"end", "done"}) =>
                  \/ i = Len(passwords)
                  \/ BudgetStopTaken /\ i = max_attempts

C13_Witness ==
    /\ Len(posts) >= 3
    /\ posts[1].class = "Blocked"
    /\ posts[2].class = "Blocked"
    /\ posts[3].password = passwords[3]

\* C14 as stated: every attempt the loop has dealt with, whatever its
\* result, has its progress line (attempts so far, total), and a finished
\* call has logged its final outcome.
C14_ProgressAfterEveryAttempt ==
    /\ \A i \in DOMAIN posts :
          Handled(i) => \E j \in DOMAIN out :
                           out[j] = Ev("progress", i, Len(passwords))
    /\ pc = "done" => out[Len(out)].ev
                         \in {"success", "not_found", "file_not_found", "read_error"}

\* C14 amended: every attempt the loop has dealt with whose result is not
\* Success has its progress line (attempts so far, total); an attempt
\* classified Success has none: the success is logged and the call returns;
\* and a finished call has logged its final outcome last.
C14_ProgressAfterNonSuccess ==
    /\ \A i \in DOMAIN posts :
          Handled(i) =>
              IF posts[i].class = "Success"
              THEN /\ \A j \in DOMAIN out : out[j].ev # "progress" \/ out[j].n # i
                   /\ out[Len(out)].ev = "success"
              ELSE \E j \in DOMAIN out :
                      out[j] = Ev("progress", i, Len(passwords))
    /\ \A j \in DOMAIN out :
          out[j].ev = "progress" => (out[j].n \in DOMAIN posts /\ out[j].n <= attempts)
    /\ pc = "done" => out[Len(out)].ev
                         \in {"success", "not_found", "file_not_found", "read_error"}

C14_Witness ==
    /\ pc = "done"
    /\ Len(posts) = 4
    /\ posts[1].class = "TransportError"
    /\ posts[2].class = "Blocked"
    /\ posts[3].class = "Failure"
    /\ posts[4].class = "Success"
    /\ \E j \in DOMAIN out : out[j] = Ev("progress", 3, 4)

-----------------------------------------------------------------------------
(* Retries and redirects of the POST *)

\* C16: a POST answered with a status of the forcelist goes out again up to
\* RetryTotal times and then ends as a transport error; its URL and body
\* are never classified.
C16_PostRetriedLikeGet ==
    \A i \in DOMAIN posts :
        (~script[i].exc /\ script[i].status \in StatusForcelist) =>
            /\ posts[i].sends = Sends("GET", script[i])
            /\ posts[i].resp.exc
            /\ posts[i].class = "TransportError"

-----------------------------------------------------------------------------
(* The session across attempts *)

\* C18 as stated: what goes out for a candidate depends on the identifier
\* and the candidate alone: two POSTs for the same candidate carry the same
\* form and the same cookies.
C18_NoCarryOver ==
    \A i, j \in DOMAIN posts :
        posts[i].password = posts[j].password =>
            /\ posts[i].request.email = posts[j].request.email
            /\ posts[i].request.pass = posts[j].request.pass
            /\ posts[i].request.cookies = posts[j].request.cookies

\* the cookies the answers to the attempts before i have set
CookiesBefore(i) == UNION {posts[m].resp.set_cookie : m \in 1..(i - 1)}

\* C18 amended: the form of the POST for candidate i holds the identifier
\* and that candidate, and what attempt_login returns is decided by the
\* answer to that POST alone; but the one session carries cookies over: the
\* POST for candidate i also sends every cookie the answers to attempts
\* 1..i-1 have set (in a first call: exactly those).
C18_OnlyCookiesCarryOver ==
    \A i \in DOMAIN posts :
        /\ posts[i].request.email = email
        /\ posts[i].request.pass = passwords[i]
        /\ posts[i].ret = (AttemptResult(SessionPost(script[i])) = "Success")
        /\ CookiesBefore(i) \subseteq posts[i].request.cookies
        /\ posts[i].request.cookies \subseteq cookies
        /\ ~rerun => posts[i].request.cookies = CookiesBefore(i)

C18_Witness ==
    /\ Len(posts) >= 2
    /\ posts[1].password = posts[2].password
    /\ posts[1].request.cookies = {}
    /\ posts[2].request.cookies # {}

-----------------------------------------------------------------------------
(* Negative max_attempts *)

\* C20: with max_attempts < 0 a call makes no attempt and takes no delay;
\* on a list with a candidate it takes the budget stop at the first one and
\* returns None.
C20_NegativeBudgetStopsFirst ==
    max_attempts < 0 =>
        /\ calls = <<>>
        /\ sleeps = <<>>
        /\ posts = <<>>
        /\ now = 0
        /\ (pc = "done" /\ passwords # <<>>) =>
              /\ BudgetStopTaken
              /\ idx = 1
              /\ attempts = 1
              /\ result = None

C20_Witness ==
    /\ pc = "done"
    /\ max_attempts < 0
    /\ Len(passwords) >= 2
    /\ BudgetStopTaken
    /\ result = None

-----------------------------------------------------------------------------
(* Interrupts, configuration errors *)

\* C15: a KeyboardInterrupt takes effect only between two statements of the
\* loop: before the delay has started or after the attempt has returned,
\* never some way into the delay nor with the POST in flight; and the
\* process then reports the interruption and exits cleanly.
C15_InterruptOnlyAtSafePoint ==
    interrupt.raised =>
        /\ interrupt.where \in {"for", "sleep", "if", "end"}
        /\ interrupt.where = "sleep" => interrupt.elapsed = 0
        /\ out[Len(out)].ev = "interrupted"
        /\ exitcode = "0"

\* main was given no identifier or no wordlist, or the wordlist it was given
\* cannot be read
ConfigurationError ==
    /\ argv.confirm
    /\ \/ argv.email = ""
       \/ argv.wordlist = ""
       \/ argv.final /\ file.status # "ok"

\* C17: with the identifier or the candidate source missing, or the source
\* unreadable, the process ends without a call, delay or POST having been
\* made, and what it tells its caller is not what a completed sweep that
\* found nothing tells: not the summary 'no valid password found'.
C17_ConfigurationErrorSurfaced ==
    (mainpc = "exited" /\ ConfigurationError) =>
        /\ calls = <<>>
        /\ sleeps = <<>>
        /\ posts = <<>>
        /\ \A j \in DOMAIN out : out[j].ev # "complete_not_found"

====
